---- MODULE Spec2Model ----
(***************************************************************************)
(* State-machine model of the AISQLTrainer backend core:                   *)
(*   - the Query Grading Engine      (routes/sql_practice.py)              *)
(*   - the Sandbox Connection Registry (routes/sql_practice.py)            *)
(*   - the schema provisioning / population protocols                      *)
(*   - the Usage Quota Ledger        (utils/subscription_service.py)       *)
(* Every route handler is one action; the persistence store is modelled    *)
(* by the rows it holds after the handler's commit.                        *)
(***************************************************************************)
EXTENDS Integers, Sequences, FiniteSets, TLC

VARIABLES
    sessions,   \* persisted PracticeSession rows: session id -> [queries, total_score]
    gradeRes,   \* outcome of the last /iscorrect (check_correct) request
    cache,      \* _duckdb_conn_cache: (user, session) -> connection object, 0 when absent
    conns,      \* every connection object created so far -> "live" | "broken" | "closed"
    acq,        \* what the last get_duckdb_conn call found and returned
    dbfile,     \* db_<user_id>.duckdb: user -> (table name -> number of rows)
    artifacts,  \* user -> number of Schema rows persisted by /generate-schema
    prov,       \* the steps of the last /generate-schema or /populate-tables request
    month,      \* the current (year, month) period of datetime.utcnow(), as an index
    usage,      \* UserUsage rows: (user, period) -> [schemas_generated, competitions_entered]
    subs,       \* user -> plan of the user's active Subscription row, "none" without one
    comps,      \* user -> number of CompetitionSubmission rows
    req,        \* the last request to feature-check, competition/start,
                \* question-generator or generate-schema, and the quota check it made
    lock,       \* _duckdb_conn_lock: the call holding it, "free" when released
    inflight    \* calls in flight: call -> the statement it stands at and its locals

gradeVars  == <<sessions, gradeRes>>
regVars    == <<cache, conns, acq>>
provVars   == <<dbfile, artifacts, prov>>
ledgerVars == <<month, usage, subs, comps>>
callVars   == <<lock, inflight>>
vars == <<sessions, gradeRes, cache, conns, acq, dbfile, artifacts, prov,
          month, usage, subs, comps, req, lock, inflight>>

\* what the handlers of one component leave alone
notRegVars      == <<gradeVars, provVars, ledgerVars, req, callVars>>
notGradeRegVars == <<provVars, ledgerVars, req, callVars>>
notProvRegVars  == <<gradeVars, ledgerVars, callVars>>
notLedgerVars   == <<gradeVars, regVars, provVars, callVars>>

(***************************************************************************)
(* Bounds of the model                                                     *)
(***************************************************************************)
MaxLog == 3             \* longest persisted query log that still takes an entry
MaxConns == 4           \* connection objects created over one run
MaxRows == 2            \* rows the population code puts into one table
MaxArtifacts == 2       \* Schema rows persisted per user
MaxMonths == 2          \* calendar months a run spans
MaxUsage == 4           \* usage increments over one run, all counters together

(***************************************************************************)
(* Strings whose characters matter are sequences of one-character strings  *)
(***************************************************************************)
STR_basic        == <<"b","a","s","i","c">>
STR_Basic        == <<"B","a","s","i","c">>
STR_intermediate == <<"i","n","t","e","r","m","e","d","i","a","t","e">>
STR_advanced     == <<"a","d","v","a","n","c","e","d">>
STR_ADVANCED     == <<"A","D","V","A","N","C","E","D">>
STR_expert       == <<"e","x","p","e","r","t">>

\* the difficulty strings a client sends (CheckCorrectRequest.difficulty: str)
Difficulties ==
    {STR_basic, STR_Basic, STR_intermediate, STR_advanced, STR_ADVANCED, STR_expert}

UpperOf(c) ==
    CASE c = "a" -> "A" [] c = "b" -> "B" [] c = "c" -> "C" [] c = "d" -> "D"
      [] c = "e" -> "E" [] c = "i" -> "I" [] c = "m" -> "M" [] c = "n" -> "N"
      [] c = "p" -> "P" [] c = "r" -> "R" [] c = "s" -> "S" [] c = "t" -> "T"
      [] c = "v" -> "V" [] c = "x" -> "X" [] OTHER -> c

LowerChar(c) ==
    CASE c = "A" -> "a" [] c = "B" -> "b" [] c = "C" -> "c" [] c = "D" -> "d"
      [] c = "E" -> "e" [] c = "I" -> "i" [] c = "M" -> "m" [] c = "N" -> "n"
      [] c = "P" -> "p" [] c = "R" -> "r" [] c = "S" -> "s" [] c = "T" -> "t"
      [] c = "V" -> "v" [] c = "X" -> "x" [] OTHER -> c

\* str.lower()
Lower(s) == [i \in 1..Len(s) |-> LowerChar(s[i])]

(***************************************************************************)
(* Sandbox Connection Registry                                             *)
(***************************************************************************)
Users == {"u1", "u2"}

\* the (user_id, session_id) keys requests name
SessionIds == {"s1", "s2"}
RegKeys == Users \X SessionIds

NoAcq == [op |-> "none"]
\* the request evaluated no quota check
NoCheck == [op |-> "none"]

\* db_filename = f'db_{user_id}.duckdb': the sandbox file a key's handle opens,
\* named by the user the file belongs to
DbFilename(key) == key[1]

\* conn.execute("SELECT 1") succeeds
ProbeOk(st, h) == st[h] = "live"

\* the connection objects created so far are 1..NumConns
NumConns(st) == Cardinality(DOMAIN st)

\* mutant: the cached connection is handed out without the liveness probe
GetDuckdbConnNoProbe(c, st, key) ==
    LET h == c[key] IN
    IF h # 0
    THEN [cache |-> c, conns |-> st, conn |-> h]
    ELSE LET new == NumConns(st) + 1 IN
         [cache |-> [c EXCEPT ![key] = new],
          conns |-> [x \in DOMAIN st \cup {new} |-> IF x = new THEN "live" ELSE st[x]],
          conn  |-> new]

\* get_duckdb_conn(user_id, session_id), under _duckdb_conn_lock: the registry and
\* the connection objects after the call, and the connection returned
GetDuckdbConn(c, st, key) ==
    LET h == c[key] IN
    IF h # 0 /\ ProbeOk(st, h)
    THEN [cache |-> c, conns |-> st, conn |-> h]
    ELSE LET \* the probe raised: conn.close() (its own failure swallowed), cache.pop(key)
             st1 == IF h # 0 THEN [st EXCEPT ![h] = "closed"] ELSE st
             \* duckdb.connect(database=db_filename); cache[key] = conn
             new == NumConns(st) + 1
         IN [cache |-> [c EXCEPT ![key] = new],
             conns |-> [x \in DOMAIN st1 \cup {new} |-> IF x = new THEN "live" ELSE st1[x]],
             conn  |-> new]

\* the call creates a connection object
NeedsNewConn(key) == cache[key] = 0 \/ ~ProbeOk(conns, cache[key])

\* conn = get_duckdb_conn(...) as the first step of a handler
UseConn(key) ==
    /\ NeedsNewConn(key) => NumConns(conns) < MaxConns
    /\ LET r == GetDuckdbConn(cache, conns, key) IN
       /\ cache' = r.cache
       /\ conns' = r.conns
       /\ acq' = [op |-> "acquire", key |-> key, conn |-> r.conn, prev |-> cache[key],
                  prevLive |-> (cache[key] # 0 /\ ProbeOk(conns, cache[key]))]

\* a request that only obtains its sandbox handle and reads through it
Acquire(key) ==
    /\ UseConn(key)
    /\ UNCHANGED notRegVars

\* POST /delete-duckdb?user_id=..&session_id=..: obtains the handle, drops every
\* table and closes the handle; the closed object stays in the registry (nothing
\* pops the key).  failed: the tables whose DROP raised; any of them makes the
\* handler raise HTTP 500 after the close.
DeleteDuckdb(key, failed) ==
    /\ NeedsNewConn(key) => NumConns(conns) < MaxConns
    /\ failed \subseteq DOMAIN dbfile[key[1]]
    /\ LET r == GetDuckdbConn(cache, conns, key) IN
       /\ cache' = r.cache
       /\ conns' = [r.conns EXCEPT ![r.conn] = "closed"]
       /\ acq' = NoAcq
    /\ dbfile' = [dbfile EXCEPT ![key[1]] = [t \in failed |-> dbfile[key[1]][t]]]
    /\ req' = [route |-> "delete_duckdb", user |-> key[1], session |-> key[2],
               status |-> (IF failed = {} THEN "ok" ELSE "error"), check |-> NoCheck]
    /\ UNCHANGED <<artifacts, prov, gradeVars, ledgerVars, callVars>>

\* the engine invalidates a live connection (fatal error of the database instance)
ConnBreaks(h) ==
    /\ h \in DOMAIN conns
    /\ conns[h] = "live"
    /\ conns' = [conns EXCEPT ![h] = "broken"]
    /\ acq' = NoAcq
    /\ UNCHANGED <<cache, notRegVars>>

InitRegistry ==
    /\ cache = [k \in RegKeys |-> 0]
    /\ conns = [x \in {} |-> "live"]
    /\ acq = NoAcq

(***************************************************************************)
(* Query Grading Engine                                                    *)
(***************************************************************************)
WeightBasic        == 5
WeightIntermediate == 10
WeightAdvanced     == 20

\* mutant: the table is looked up with a wrong weight for "advanced"
DifficultyMultiplierGetSwapped(key) ==
    IF key = STR_basic THEN WeightBasic
    ELSE IF key = STR_intermediate THEN WeightIntermediate
    ELSE IF key = STR_advanced THEN WeightIntermediate
    ELSE 0

\* difficulty_multiplier.get(key, 0)
DifficultyMultiplierGet(key) ==
    IF key = STR_basic THEN WeightBasic
    ELSE IF key = STR_intermediate THEN WeightIntermediate
    ELSE IF key = STR_advanced THEN WeightAdvanced
    ELSE 0

\* points = (1 if is_correct else 0) * difficulty_multiplier.get(difficulty.lower(), 0)
PointsFor(is_correct, difficulty) ==
    (IF is_correct THEN 1 ELSE 0) * DifficultyMultiplierGet(Lower(difficulty))

\* q.get("points", 0)
PointsOf(q) == IF "points" \in DOMAIN q THEN q.points ELSE 0

\* sum(q.get("points", 0) for q in queries if isinstance(q, dict))
RECURSIVE SumPoints(_)
SumPoints(queries) ==
    IF queries = <<>> THEN 0
    ELSE PointsOf(Head(queries)) + SumPoints(Tail(queries))

\* What the commit writes to the JSON column `queries` after
\*     queries = db_session.queries or []; queries.append(e); db_session.queries = queries
\* `queries` is a plain Column(JSON): in-place mutation is not tracked.  When the
\* loaded list is non-empty, `queries` IS the loaded object, the assignment sets the
\* attribute to the object it already holds, the flush compares that object with
\* itself and leaves the column out of the UPDATE.  When the loaded list is empty,
\* `or []` yields a new list, the attribute changes and the column is written.
FlushedQueries(loaded, appended) ==
    IF loaded # <<>> THEN loaded ELSE appended

\* the session ids create-session is called with; the other id never has a record
CreatedSessionIds == {"s1"}
NoGrade == [status |-> "none"]

\* the QueryAttempt dict appended by check_correct
AttemptEntry(is_correct, points, difficulty) ==
    [is_correct |-> is_correct, points |-> points, difficulty |-> difficulty]

\* the dict appended by execute_sql: no "points" key
ExecEntry == [query |-> "sql"]

\* POST /create-session: a duplicate id fails on the primary key and rolls back
CreateSession(s) ==
    /\ s \notin DOMAIN sessions
    /\ sessions' = [x \in DOMAIN sessions \cup {s} |->
                      IF x = s THEN [queries |-> <<>>, total_score |-> 0]
                      ELSE sessions[x]]
    /\ gradeRes' = NoGrade
    /\ UNCHANGED <<regVars, notGradeRegVars>>

\* check_correct, lines 281-302: the capabilities awaited.  check_correct_agent is
\* awaited inside the try once the SQL has run; whatever raises inside the try,
\* the except branch awaits explanation_gen_agent.
InvokedBy(sqlRuns, verdict) ==
    IF ~sqlRuns THEN {"explanation_gen_agent"}
    ELSE IF verdict = "raise" THEN {"check_correct_agent", "explanation_gen_agent"}
    ELSE {"check_correct_agent"}

\* POST /iscorrect for the sandbox of (request.user_id, request.session_id).  sqlRuns: the learner's SQL executed; verdict: what the
\* correctness-judgment capability answers ("raise": the call failed);
\* explainOk: the error-explanation capability answered.
CheckCorrect(u, s, difficulty, sqlRuns, verdict, explainOk) ==
    LET judged     == sqlRuns /\ verdict # "raise"
        is_correct == judged /\ verdict = "true"
        points     == IF judged THEN PointsFor(is_correct, difficulty) ELSE 0
        entry      == AttemptEntry(is_correct, points, difficulty)
    IN
    /\ s \in DOMAIN sessions => Len(sessions[s].queries) < MaxLog
    /\ UseConn(<<u, s>>)
    /\ UNCHANGED notGradeRegVars
    /\ IF ~judged /\ ~explainOk
       THEN \* explanation_gen_agent raised inside the except branch: HTTP 500
            /\ gradeRes' = [status |-> "error"]
            /\ UNCHANGED sessions
       ELSE /\ gradeRes' = [status |-> "ok", session |-> s, is_correct |-> is_correct,
                            points |-> points, difficulty |-> difficulty,
                            verdict |-> verdict, executed |-> sqlRuns,
                            table_head |-> (IF judged THEN "rows" ELSE ""),
                            invoked |-> InvokedBy(sqlRuns, verdict)]
            /\ IF s \in DOMAIN sessions
               THEN LET loaded   == sessions[s].queries
                        appended == Append(loaded, entry)
                    IN sessions' = [sessions EXCEPT ![s] =
                          [queries     |-> FlushedQueries(loaded, appended),
                           total_score |-> SumPoints(appended)]]
               ELSE UNCHANGED sessions

\* POST /execute by the authenticated user u.  ok: the query executed; a failure rolls back.
ExecuteSql(u, s, ok) ==
    /\ s \in DOMAIN sessions => Len(sessions[s].queries) < MaxLog
    /\ UseConn(<<u, s>>)
    /\ UNCHANGED notGradeRegVars
    /\ gradeRes' = NoGrade
    /\ IF ok /\ s \in DOMAIN sessions
       THEN LET loaded   == sessions[s].queries
                appended == Append(loaded, ExecEntry)
            IN sessions' = [sessions EXCEPT ![s] =
                  [queries     |-> FlushedQueries(loaded, appended),
                   total_score |-> @.total_score]]
       ELSE UNCHANGED sessions

\* Every route is reached through get_current_user, which answers 401 without a
\* valid token: p is the authenticated principal of the request.
\* POST /iscorrect by p with a body naming user_id: current_user is not consulted
CheckCorrectBy(p, user_id, s, difficulty, sqlRuns, verdict, explainOk) ==
    CheckCorrect(user_id, s, difficulty, sqlRuns, verdict, explainOk)

\* POST /execute by p: the sandbox key is made of current_user.id
ExecuteSqlBy(p, s, ok) == ExecuteSql(p, s, ok)

\* POST /delete-duckdb?user_id=..&session_id=.. by p: current_user is not consulted
DeleteDuckdbBy(p, user_id, s, failed) == DeleteDuckdb(<<user_id, s>>, failed)

InitSessions ==
    /\ sessions = [x \in {} |-> 0]
    /\ gradeRes = NoGrade

(***************************************************************************)
(* Schema provisioning and synthetic-data population                       *)
(***************************************************************************)
TableNames == {"t1", "t2"}
NoTables == [t \in {} |-> 0]
NoProv == [op |-> "none"]

\* one step of a protocol run: a capability call ("generate", "repair"), an
\* apply/exec attempt ("attempt"), the row-count validation ("validate") or the
\* commit of the Schema row ("persist"), and whether it went through
Ev(e, ok) == [ev |-> e, ok |-> ok]

\* mutant: a failed repaired attempt is repaired and attempted once more
SchemaTraceRetryAgain(g1, a1, g2, a2, p) ==
    IF ~g1 THEN <<Ev("generate", FALSE)>>
    ELSE IF a1 THEN <<Ev("generate", TRUE), Ev("attempt", TRUE), Ev("persist", p)>>
    ELSE IF ~g2 THEN <<Ev("generate", TRUE), Ev("attempt", FALSE), Ev("repair", FALSE)>>
    ELSE IF a2 THEN <<Ev("generate", TRUE), Ev("attempt", FALSE), Ev("repair", TRUE),
                      Ev("attempt", TRUE), Ev("persist", p)>>
    ELSE <<Ev("generate", TRUE), Ev("attempt", FALSE), Ev("repair", TRUE),
           Ev("attempt", FALSE), Ev("repair", TRUE), Ev("attempt", FALSE)>>

\* generate_schema, lines 165-195: create_schema_agent, conn.execute, and in the
\* except branch redo_schema_agent and conn.execute again; then the commit.
\* g1, g2: the capability answered; a1, a2: the SQL applied; p: the commit succeeded.
\* Whatever raises outside the inner try ends the request (outer except).
SchemaTrace(g1, a1, g2, a2, p) ==
    IF ~g1 THEN <<Ev("generate", FALSE)>>
    ELSE IF a1 THEN <<Ev("generate", TRUE), Ev("attempt", TRUE), Ev("persist", p)>>
    ELSE IF ~g2 THEN <<Ev("generate", TRUE), Ev("attempt", FALSE), Ev("repair", FALSE)>>
    ELSE IF a2 THEN <<Ev("generate", TRUE), Ev("attempt", FALSE), Ev("repair", TRUE),
                      Ev("attempt", TRUE), Ev("persist", p)>>
    ELSE <<Ev("generate", TRUE), Ev("attempt", FALSE), Ev("repair", TRUE),
           Ev("attempt", FALSE)>>

\* mutant: a sandbox with exactly half of its tables populated is accepted
PopulationRejectedBelowHalf(counts) ==
    LET num_tables    == Cardinality(DOMAIN counts)
        num_with_data == Cardinality({t \in DOMAIN counts : counts[t] > 1})
    IN num_tables = 0 \/ 2 * num_with_data < num_tables

\* num_tables == 0 or num_with_data / num_tables <= 0.5  (count > 1 has data)
PopulationRejected(counts) ==
    LET num_tables    == Cardinality(DOMAIN counts)
        num_with_data == Cardinality({t \in DOMAIN counts : counts[t] > 1})
    IN num_tables = 0 \/ 2 * num_with_data <= num_tables

\* mutant: a failed first capability call is followed by a repair request
PopulateTraceRepairsGeneration(g1, e1, g2, e2, counts) ==
    IF ~g1 THEN <<Ev("generate", FALSE), Ev("repair", FALSE)>>
    ELSE IF e1 THEN <<Ev("generate", TRUE), Ev("attempt", TRUE),
                      Ev("validate", ~PopulationRejected(counts))>>
    ELSE IF ~g2 THEN <<Ev("generate", TRUE), Ev("attempt", FALSE), Ev("repair", FALSE)>>
    ELSE IF e2 THEN <<Ev("generate", TRUE), Ev("attempt", FALSE), Ev("repair", TRUE),
                      Ev("attempt", TRUE), Ev("validate", ~PopulationRejected(counts))>>
    ELSE <<Ev("generate", TRUE), Ev("attempt", FALSE), Ev("repair", TRUE),
           Ev("attempt", FALSE)>>

\* populate_tables, lines 391-415: populate_table_agent, exec(code), and in the
\* except branch code_rewritter_agent and exec again; then the row-count check.
\* counts: the row counts found after the last exec.
PopulateTrace(g1, e1, g2, e2, counts) ==
    IF ~g1 THEN <<Ev("generate", FALSE)>>
    ELSE IF e1 THEN <<Ev("generate", TRUE), Ev("attempt", TRUE),
                      Ev("validate", ~PopulationRejected(counts))>>
    ELSE IF ~g2 THEN <<Ev("generate", TRUE), Ev("attempt", FALSE), Ev("repair", FALSE)>>
    ELSE IF e2 THEN <<Ev("generate", TRUE), Ev("attempt", FALSE), Ev("repair", TRUE),
                      Ev("attempt", TRUE), Ev("validate", ~PopulationRejected(counts))>>
    ELSE <<Ev("generate", TRUE), Ev("attempt", FALSE), Ev("repair", TRUE),
           Ev("attempt", FALSE)>>

\* mutant: the run counts as succeeded as soon as an apply attempt went through
RunSucceededWhenApplied(trace) ==
    \E i \in 1..Len(trace) : trace[i].ev \in {"attempt", "validate"} /\ trace[i].ok

\* the request returned normally: its last step went through and was the final one
RunSucceeded(trace) ==
    /\ trace[Len(trace)].ok
    /\ trace[Len(trace)].ev \in {"persist", "validate"}

\* What generate_schema answers.  Every exception is caught at line 205 and
\* becomes HTTP 500 "generate-schema error: " + str(e): the text of whatever
\* raised last.
SchemaResponse(trace) ==
    LET last == trace[Len(trace)] IN
    IF last = Ev("persist", TRUE)
    THEN [status |-> 200, kind |-> "ok", text |-> "none"]
    ELSE [status |-> 500, kind |-> "generate_schema_error",
          text |-> IF last.ev \in {"generate", "repair"} THEN "capability_error"
                   ELSE IF last.ev = "attempt" THEN "apply_error"
                   ELSE "commit_error"]

\* What populate_tables answers.  The handler at line 417 catches every Exception,
\* the HTTPException(400, "Not enough tables ...: {counts}") of line 413 included,
\* and raises HTTP 400 "Code execution failed: " + str(e) + str(code) +
\* str(code_retry).  When populate_table_agent raised, `code` and `code_retry` are
\* still unbound: building the detail raises UnboundLocalError inside the handler
\* and the framework answers 500 "Internal Server Error".  detailShown: str() of an
\* HTTPException renders its detail (it does in recent Starlette releases and
\* yields "" in older ones; the repository pins no version).
PopulateResponse(trace, detailShown) ==
    LET last == trace[Len(trace)] IN
    IF last = Ev("validate", TRUE)
    THEN [status |-> 200, kind |-> "ok", text |-> "none"]
    ELSE IF last = Ev("generate", FALSE)
    THEN [status |-> 500, kind |-> "internal_server_error", text |-> "none"]
    ELSE [status |-> 400, kind |-> "code_execution_failed",
          text |-> IF last.ev = "repair" THEN "capability_error"
                   ELSE IF last.ev = "attempt" THEN "exec_error"
                   ELSE IF detailShown THEN "counts" ELSE "none"]

\* the steps of kind e in a trace
StepsOf(trace, e) == {i \in 1..Len(trace) : trace[i].ev \in e}

\* CREATE TABLE for every table of `made` that does not exist yet: empty tables
CreateTables(tabs, made) ==
    [t \in DOMAIN tabs \cup made |-> IF t \in DOMAIN tabs THEN tabs[t] ELSE 0]

\* POST /generate-schema by user u for session s.  kept: the existing tables whose
\* DROP raised (the failure is passed over).  made1, made2: the tables the
\* statements of the first and of the repaired schema text created before the text
\* ended or failed.
GenerateSchema(u, s, kept, g1, a1, made1, g2, a2, made2, p) ==
    LET trace    == SchemaTrace(g1, a1, g2, a2, p)
        attempts == Cardinality(StepsOf(trace, {"attempt"}))
        \* lines 159-164: every existing table is dropped first, failures ignored
        dropped  == [t \in kept |-> dbfile[u][t]]
        after1   == IF attempts >= 1 THEN CreateTables(dropped, made1) ELSE dropped
        after2   == IF attempts >= 2 THEN CreateTables(after1, made2) ELSE after1
    IN
    /\ artifacts[u] < MaxArtifacts
    /\ kept \subseteq DOMAIN dbfile[u]
    /\ UseConn(<<u, s>>)
    /\ dbfile' = [dbfile EXCEPT ![u] = after2]
    /\ artifacts' = [artifacts EXCEPT ![u] = IF RunSucceeded(trace) THEN @ + 1 ELSE @]
    /\ prov' = [op |-> "schema", user |-> u, trace |-> trace,
                response |-> SchemaResponse(trace)]
    \* no call of can_use_feature or increment_usage anywhere in the handler
    /\ req' = [route |-> "generate_schema", user |-> u,
               status |-> (IF RunSucceeded(trace) THEN "ok" ELSE "error"),
               check |-> NoCheck]
    /\ UNCHANGED notProvRegVars

\* the row counts an exec can leave: rows are only added, to existing tables
RowsAfter(tabs) ==
    {r \in [DOMAIN tabs -> 0..MaxRows] : \A t \in DOMAIN tabs : r[t] >= tabs[t]}

\* POST /populate-tables by user u for session s.  rows1, rows2: the row counts
\* after the first and after the repaired exec (a failing exec keeps what it
\* inserted before it raised).
PopulateTables(u, s, g1, e1, rows1, g2, e2, rows2, detailShown) ==
    LET execs  == IF ~g1 THEN 0 ELSE IF e1 \/ ~g2 THEN 1 ELSE 2
        counts == IF execs = 0 THEN dbfile[u] ELSE IF execs = 1 THEN rows1 ELSE rows2
        trace  == PopulateTrace(g1, e1, g2, e2, counts)
    IN
    /\ UseConn(<<u, s>>)
    /\ dbfile' = [dbfile EXCEPT ![u] = counts]
    /\ prov' = [op |-> "populate", user |-> u, trace |-> trace,
                response |-> PopulateResponse(trace, detailShown)]
    /\ UNCHANGED <<artifacts, req, notProvRegVars>>

\* POST /auth/logout by user u: removes <USER_DUCKDB_DIR>/<user id>.duckdb if it
\* exists.  No code creates a file of that name (the sandbox file is
\* db_<user id>.duckdb in the working directory), and the handler does not touch
\* _duckdb_conn_cache: the sandbox file and the registry are left as they are.
Logout(u) ==
    /\ req' = [route |-> "logout", user |-> u, status |-> "ok", check |-> NoCheck]
    /\ UNCHANGED <<gradeVars, regVars, provVars, ledgerVars, callVars>>

InitProv ==
    /\ dbfile = [u \in Users |-> NoTables]
    /\ artifacts = [u \in Users |-> 0]
    /\ prov = NoProv

(***************************************************************************)
(* Usage Quota Ledger                                                      *)
(***************************************************************************)
FreeMaxSchemas      == 5
FreeMaxCompetitions == 3
ProMaxSchemas       == 15
ProMaxCompetitions  == 15
MaxMaxSchemas       == 50
MaxMaxCompetitions  == 50

\* os.getenv('DEFAULT_PLAN', 'free').lower() with the variable unset
DefaultPlan == "free"

\* PLAN_CONFIGS.get(subscription.plan, PLAN_CONFIGS['free'])
PlanConfig(plan) == IF plan \in {"free", "pro", "max"} THEN plan ELSE "free"

\* plan_config['limits']['max_schemas_per_month']
MaxSchemasPerMonth(plan) ==
    CASE PlanConfig(plan) = "free" -> FreeMaxSchemas
      [] PlanConfig(plan) = "pro"  -> ProMaxSchemas
      [] PlanConfig(plan) = "max"  -> MaxMaxSchemas

\* plan_config['limits']['max_competitions_per_month']
MaxCompetitionsPerMonth(plan) ==
    CASE PlanConfig(plan) = "free" -> FreeMaxCompetitions
      [] PlanConfig(plan) = "pro"  -> ProMaxCompetitions
      [] PlanConfig(plan) = "max"  -> MaxMaxCompetitions

\* plan_config['features']['can_download_certificates'] and
\* plan_config['features']['can_get_master_certificate']
CanDownloadCertificates(plan) == PlanConfig(plan) \in {"pro", "max"}
CanGetMasterCertificate(plan) == PlanConfig(plan) \in {"pro", "max"}

\* the feature names the routes pass to can_use_feature
Features ==
    {"generate_schema", "competition", "download_certificate", "master_certificate",
     "can_get_master_certificate"}

Periods == 1..MaxMonths

\* every authenticated principal has a User row
Registered == Users

\* mutant: a store error while resolving the plan falls back to the default plan
GetUserPlanFailOpen(sb, u, storeOk) ==
    IF ~storeOk \/ u \notin Registered
    THEN [raised |-> FALSE, subs |-> sb, plan |-> DefaultPlan]
    ELSE IF sb[u] = "none"
    THEN [raised |-> FALSE, subs |-> [sb EXCEPT ![u] = DefaultPlan], plan |-> DefaultPlan]
    ELSE [raised |-> FALSE, subs |-> sb, plan |-> sb[u]]

\* SubscriptionService.get_user_plan: the plan name resolved and the Subscription
\* rows after the call; storeOk: the queries and the commit went through
GetUserPlan(sb, u, storeOk) ==
    IF ~storeOk
    THEN [raised |-> TRUE, subs |-> sb, plan |-> "none"]
    ELSE IF u \notin Registered
    THEN [raised |-> FALSE, subs |-> sb, plan |-> DefaultPlan]
    ELSE IF sb[u] = "none"
    THEN \* no active subscription: one is created with the default plan
         [raised |-> FALSE, subs |-> [sb EXCEPT ![u] = DefaultPlan], plan |-> DefaultPlan]
    ELSE [raised |-> FALSE, subs |-> sb, plan |-> sb[u]]

ZeroUsage == [schemas_generated |-> 0, competitions_entered |-> 0]

\* the UserUsage rows with one row added or replaced
WithRow(us, key, rec) ==
    [k \in DOMAIN us \cup {key} |-> IF k = key THEN rec ELSE us[k]]

\* mutant: the row of a new month starts with the counts of the month before
GetUserUsageCarryOver(us, u, m, storeOk) ==
    IF ~storeOk
    THEN [raised |-> TRUE, usage |-> us, rec |-> ZeroUsage]
    ELSE IF <<u, m>> \in DOMAIN us
    THEN [raised |-> FALSE, usage |-> us, rec |-> us[<<u, m>>]]
    ELSE LET start == IF <<u, m - 1>> \in DOMAIN us THEN us[<<u, m - 1>>] ELSE ZeroUsage
         IN [raised |-> FALSE, usage |-> WithRow(us, <<u, m>>, start), rec |-> start]

\* SubscriptionService.get_user_usage: the current month's counts, the row being
\* created with zeros when absent
GetUserUsage(us, u, m, storeOk) ==
    IF ~storeOk
    THEN [raised |-> TRUE, usage |-> us, rec |-> ZeroUsage]
    ELSE IF <<u, m>> \in DOMAIN us
    THEN [raised |-> FALSE, usage |-> us, rec |-> us[<<u, m>>]]
    ELSE [raised |-> FALSE, usage |-> WithRow(us, <<u, m>>, ZeroUsage), rec |-> ZeroUsage]

\* mutant: a count equal to the limit is still allowed
FeatureResultInclusive(plan, rec, feature) ==
    IF feature = "generate_schema"
    THEN [op |-> "check", feature |-> feature, limit |-> MaxSchemasPerMonth(plan),
          used |-> rec.schemas_generated,
          allowed |-> rec.schemas_generated <= MaxSchemasPerMonth(plan)]
    ELSE IF feature = "competition"
    THEN [op |-> "check", feature |-> feature, limit |-> MaxCompetitionsPerMonth(plan),
          used |-> rec.competitions_entered,
          allowed |-> rec.competitions_entered <= MaxCompetitionsPerMonth(plan)]
    ELSE IF feature = "download_certificate"
    THEN [op |-> "check", feature |-> feature, limit |-> 0, used |-> 0,
          allowed |-> CanDownloadCertificates(plan)]
    ELSE IF feature = "master_certificate"
    THEN [op |-> "check", feature |-> feature, limit |-> 0, used |-> 0,
          allowed |-> CanGetMasterCertificate(plan)]
    ELSE [op |-> "check", feature |-> feature, limit |-> 0, used |-> 0, allowed |-> FALSE]

\* can_use_feature, lines 131-159: the result dict for a resolved plan and usage
FeatureResult(plan, rec, feature) ==
    IF feature = "generate_schema"
    THEN [op |-> "check", feature |-> feature, limit |-> MaxSchemasPerMonth(plan),
          used |-> rec.schemas_generated,
          allowed |-> rec.schemas_generated < MaxSchemasPerMonth(plan)]
    ELSE IF feature = "competition"
    THEN [op |-> "check", feature |-> feature, limit |-> MaxCompetitionsPerMonth(plan),
          used |-> rec.competitions_entered,
          allowed |-> rec.competitions_entered < MaxCompetitionsPerMonth(plan)]
    ELSE IF feature = "download_certificate"
    THEN [op |-> "check", feature |-> feature, limit |-> 0, used |-> 0,
          allowed |-> CanDownloadCertificates(plan)]
    ELSE IF feature = "master_certificate"
    THEN [op |-> "check", feature |-> feature, limit |-> 0, used |-> 0,
          allowed |-> CanGetMasterCertificate(plan)]
    ELSE [op |-> "check", feature |-> feature, limit |-> 0, used |-> 0, allowed |-> FALSE]

\* mutant: the check counts itself as a use
CanUseFeatureCounting(sb, us, u, m, feature, failAt) ==
    LET p == GetUserPlan(sb, u, failAt # "plan")
        g == GetUserUsage(us, u, m, failAt # "usage")
    IN IF p.raised \/ g.raised
       THEN [raised |-> TRUE, subs |-> sb, usage |-> us, result |-> NoCheck]
       ELSE [raised |-> FALSE, subs |-> p.subs,
             usage |-> WithRow(g.usage, <<u, m>>,
                          [g.rec EXCEPT !.schemas_generated = @ + 1]),
             result |-> FeatureResult(p.plan, g.rec, feature)]

\* SubscriptionService.can_use_feature.  failAt: where the persistence store fails,
\* "plan" (inside get_user_plan), "usage" (inside get_user_usage) or "none".
\* An exception of either call leaves can_use_feature.
CanUseFeature(sb, us, u, m, feature, failAt) ==
    LET p == GetUserPlan(sb, u, failAt # "plan") IN
    IF p.raised
    THEN [raised |-> TRUE, subs |-> sb, usage |-> us, result |-> NoCheck]
    ELSE LET g == GetUserUsage(us, u, m, failAt # "usage") IN
         IF g.raised
         THEN [raised |-> TRUE, subs |-> p.subs, usage |-> us, result |-> NoCheck]
         ELSE [raised |-> FALSE, subs |-> p.subs, usage |-> g.usage,
               result |-> FeatureResult(p.plan, g.rec, feature)]

\* SubscriptionService.increment_usage.  Without a row for the month the new
\* UserUsage(user_id, year, month) has both counts None until it is flushed, and
\* `None += 1` raises TypeError: nothing is committed.
IncrementUsage(us, u, m, feature) ==
    IF <<u, m>> \notin DOMAIN us
    THEN IF feature \in {"generate_schema", "competition"}
         THEN [raised |-> TRUE, usage |-> us]
         ELSE [raised |-> FALSE, usage |-> WithRow(us, <<u, m>>, ZeroUsage)]
    ELSE IF feature = "generate_schema"
    THEN [raised |-> FALSE,
          usage |-> [us EXCEPT ![<<u, m>>].schemas_generated = @ + 1]]
    ELSE IF feature = "competition"
    THEN [raised |-> FALSE,
          usage |-> [us EXCEPT ![<<u, m>>].competitions_entered = @ + 1]]
    ELSE [raised |-> FALSE, usage |-> us]

\* sum of every count of every UserUsage row
RECURSIVE TotalOver(_, _)
TotalOver(us, keys) ==
    IF keys = {} THEN 0
    ELSE LET k == CHOOSE x \in keys : TRUE
         IN us[k].schemas_generated + us[k].competitions_entered
              + TotalOver(us, keys \ {k})
TotalUsage(us) == TotalOver(us, DOMAIN us)

NoReq == [route |-> "none"]

\* GET /feature-check/{feature} by user u
FeatureCheck(u, feature, failAt) ==
    LET c == CanUseFeature(subs, usage, u, month, feature, failAt) IN
    /\ subs' = c.subs
    /\ usage' = c.usage
    /\ req' = [route |-> "feature_check", user |-> u,
               status |-> (IF c.raised THEN "error" ELSE "ok"), check |-> c.result]
    /\ UNCHANGED <<month, comps, notLedgerVars>>

\* POST /competition/start by user u
StartCompetition(u, failAt) ==
    LET c == CanUseFeature(subs, usage, u, month, "competition", failAt)
        i == IncrementUsage(c.usage, u, month, "competition")
    IN
    /\ TotalUsage(usage) < MaxUsage
    /\ subs' = c.subs
    /\ IF c.raised
       THEN \* the exception leaves the handler: HTTP 500
            /\ usage' = c.usage
            /\ comps' = comps
            /\ req' = [route |-> "start_competition", user |-> u, status |-> "error",
                       check |-> c.result]
       ELSE IF ~c.result.allowed
       THEN \* HTTP 403
            /\ usage' = c.usage
            /\ comps' = comps
            /\ req' = [route |-> "start_competition", user |-> u, status |-> "denied",
                       check |-> c.result]
       ELSE \* the CompetitionSubmission row is committed, then the usage incremented
            /\ comps' = [comps EXCEPT ![u] = @ + 1]
            /\ usage' = i.usage
            /\ req' = [route |-> "start_competition", user |-> u,
                       status |-> (IF i.raised THEN "error" ELSE "ok"),
                       check |-> c.result]
    /\ UNCHANGED <<month, notLedgerVars>>

\* POST /question-generator by user u.  genOk: question_generator_agent answered.
GenerateQuestion(u, genOk) ==
    LET i == IncrementUsage(usage, u, month, "generate_schema") IN
    /\ TotalUsage(usage) < MaxUsage
    /\ usage' = IF genOk THEN i.usage ELSE usage
    /\ req' = [route |-> "generate_question", user |-> u,
               status |-> (IF genOk /\ ~i.raised THEN "ok" ELSE "error"),
               check |-> NoCheck]
    /\ UNCHANGED <<month, subs, comps, notLedgerVars>>

\* GET /achievements/master-certificate by user u: the gate is asked with the
\* feature name "can_get_master_certificate".  eligible: the user meets the
\* certificate's requirements.
GetMasterCertificate(u, eligible) ==
    LET c == CanUseFeature(subs, usage, u, month, "can_get_master_certificate", "none") IN
    /\ subs' = c.subs
    /\ usage' = c.usage
    /\ req' = [route |-> "master_certificate", user |-> u,
               status |-> (IF c.result.allowed /\ eligible THEN "ok" ELSE "denied"),
               check |-> c.result]
    /\ UNCHANGED <<month, comps, notLedgerVars>>

\* GET /achievements/certificates by user u: the gate is asked with the feature
\* name "download_certificate"
GetUserCertificates(u) ==
    LET c == CanUseFeature(subs, usage, u, month, "download_certificate", "none") IN
    /\ subs' = c.subs
    /\ usage' = c.usage
    /\ req' = [route |-> "certificates", user |-> u,
               status |-> (IF c.result.allowed THEN "ok" ELSE "denied"),
               check |-> c.result]
    /\ UNCHANGED <<month, comps, notLedgerVars>>

\* Stripe webhook checkout.session.completed: the user's subscription takes the plan
PlanChange(u, plan) ==
    /\ subs[u] # plan
    /\ subs' = [subs EXCEPT ![u] = plan]
    /\ req' = NoReq
    /\ UNCHANGED <<month, usage, comps, notLedgerVars>>

\* customer.subscription.deleted, or current_period_end passed: no active row is left
SubscriptionEnds(u) ==
    /\ subs[u] # "none"
    /\ subs' = [subs EXCEPT ![u] = "none"]
    /\ req' = NoReq
    /\ UNCHANGED <<month, usage, comps, notLedgerVars>>

\* datetime.utcnow() enters the next calendar month
MonthRollover ==
    /\ month < MaxMonths
    /\ month' = month + 1
    /\ req' = NoReq
    /\ UNCHANGED <<usage, subs, comps, notLedgerVars>>

InitLedger ==
    /\ month = 1
    /\ usage = [k \in {} |-> ZeroUsage]
    /\ subs = [u \in Users |-> "none"]
    /\ comps = [u \in Users |-> 0]
    /\ req = NoReq

(***************************************************************************)
(* Calls in flight.  Where requests overlap, a handler is a sequence of      *)
(* steps, one per statement that reads or writes shared state: the          *)
(* statements of get_duckdb_conn under _duckdb_conn_lock, and the queries    *)
(* and commits of /competition/start against the persistence store.         *)
(***************************************************************************)
Callers == {"c1", "c2"}
Free == "free"
IdleCall == [pc |-> "idle", user |-> "", session |-> "", conn |-> 0, read |-> 0,
             check |-> NoCheck]
KeyOf(c) == <<inflight[c].user, inflight[c].session>>

\* a handler calls get_duckdb_conn(user_id, session_id), lines 47-53
EnterAcquire(c, key) ==
    /\ inflight[c].pc = "idle"
    /\ inflight' = [inflight EXCEPT ![c] = [IdleCall EXCEPT !.pc = "lock", !.user = key[1],
                                                      !.session = key[2]]]
    /\ UNCHANGED <<lock, regVars, gradeVars, provVars, ledgerVars, req>>

\* mutant: the with statement does not wait for the lock
LockAcquireUnguarded(c) ==
    /\ inflight[c].pc = "lock"
    /\ lock' = c
    /\ inflight' = [inflight EXCEPT ![c].pc = "get"]
    /\ UNCHANGED <<regVars, gradeVars, provVars, ledgerVars, req>>

\* line 54, `with _duckdb_conn_lock:` entered
LockAcquire(c) ==
    /\ inflight[c].pc = "lock"
    /\ lock = Free
    /\ lock' = c
    /\ inflight' = [inflight EXCEPT ![c].pc = "get"]
    /\ UNCHANGED <<regVars, gradeVars, provVars, ledgerVars, req>>

\* lines 55-56, conn = _duckdb_conn_cache.get(key)
CacheGet(c) ==
    /\ inflight[c].pc = "get"
    /\ inflight' = [inflight EXCEPT ![c].conn = cache[KeyOf(c)],
                              ![c].pc = IF cache[KeyOf(c)] # 0 THEN "probe" ELSE "connect"]
    /\ UNCHANGED <<lock, regVars, gradeVars, provVars, ledgerVars, req>>

\* lines 57-67: SELECT 1 answers and the connection is returned, which leaves the
\* with statement; or it raises, and the connection is closed and popped
Probe(c) ==
    /\ inflight[c].pc = "probe"
    /\ IF ProbeOk(conns, inflight[c].conn)
       THEN /\ inflight' = [inflight EXCEPT ![c].pc = "serve"]
            /\ lock' = IF lock = c THEN Free ELSE lock
            /\ UNCHANGED <<cache, conns>>
       ELSE /\ conns' = [conns EXCEPT ![inflight[c].conn] = "closed"]
            /\ cache' = [cache EXCEPT ![KeyOf(c)] = 0]
            /\ inflight' = [inflight EXCEPT ![c].pc = "connect", ![c].conn = 0]
            /\ UNCHANGED lock
    /\ UNCHANGED <<acq, gradeVars, provVars, ledgerVars, req>>

\* mutant: an exception of duckdb.connect leaves the lock held
ConnectKeepsLock(c, ok) ==
    /\ inflight[c].pc = "connect"
    /\ NumConns(conns) < MaxConns
    /\ IF ok
       THEN /\ conns' = [h \in DOMAIN conns \cup {NumConns(conns) + 1} |->
                            IF h \in DOMAIN conns THEN conns[h] ELSE "live"]
            /\ inflight' = [inflight EXCEPT ![c].pc = "insert", ![c].conn = NumConns(conns) + 1]
            /\ UNCHANGED lock
       ELSE /\ inflight' = [inflight EXCEPT ![c].pc = "raised"]
            /\ UNCHANGED <<lock, conns>>
    /\ UNCHANGED <<cache, acq, gradeVars, provVars, ledgerVars, req>>

\* line 69, conn = duckdb.connect(database=db_filename).  ok: the file opens;
\* otherwise the exception leaves the with statement, which releases the lock.
Connect(c, ok) ==
    /\ inflight[c].pc = "connect"
    /\ NumConns(conns) < MaxConns
    /\ IF ok
       THEN /\ conns' = [h \in DOMAIN conns \cup {NumConns(conns) + 1} |->
                            IF h \in DOMAIN conns THEN conns[h] ELSE "live"]
            /\ inflight' = [inflight EXCEPT ![c].pc = "insert", ![c].conn = NumConns(conns) + 1]
            /\ UNCHANGED lock
       ELSE /\ inflight' = [inflight EXCEPT ![c].pc = "raised"]
            /\ lock' = IF lock = c THEN Free ELSE lock
            /\ UNCHANGED conns
    /\ UNCHANGED <<cache, acq, gradeVars, provVars, ledgerVars, req>>

\* lines 70-71, _duckdb_conn_cache[key] = conn; return conn
CacheInsert(c) ==
    /\ inflight[c].pc = "insert"
    /\ cache' = [cache EXCEPT ![KeyOf(c)] = inflight[c].conn]
    /\ lock' = IF lock = c THEN Free ELSE lock
    /\ inflight' = [inflight EXCEPT ![c].pc = "serve"]
    /\ UNCHANGED <<conns, acq, gradeVars, provVars, ledgerVars, req>>

\* the handler goes on with the connection it was handed (it executes SQL, runs
\* generated code, awaits a capability) and answers; or it answers the exception
Finish(c) ==
    /\ inflight[c].pc \in {"serve", "raised", "done"}
    /\ inflight' = [inflight EXCEPT ![c] = IdleCall]
    /\ UNCHANGED <<lock, regVars, gradeVars, provVars, ledgerVars, req>>

\* POST /competition/start by user u, competition.py lines 72-77: the quota check
CompetitionCheck(c, u) ==
    LET r == CanUseFeature(subs, usage, u, month, "competition", "none") IN
    /\ inflight[c].pc = "idle"
    /\ comps[u] < MaxUsage
    /\ subs' = r.subs
    /\ usage' = r.usage
    /\ IF r.result.allowed
       THEN /\ inflight' = [inflight EXCEPT ![c] = [IdleCall EXCEPT !.pc = "record", !.user = u,
                                                             !.check = r.result]]
            /\ UNCHANGED req
       ELSE \* HTTP 403
            /\ req' = [route |-> "start_competition", user |-> u, status |-> "denied",
                       check |-> r.result]
            /\ UNCHANGED inflight
    /\ UNCHANGED <<month, comps, lock, gradeVars, regVars, provVars>>

\* competition.py lines 85-94: the CompetitionSubmission row is added and committed
CompetitionRecord(c) ==
    /\ inflight[c].pc = "record"
    /\ comps' = [comps EXCEPT ![inflight[c].user] = @ + 1]
    /\ inflight' = [inflight EXCEPT ![c].pc = "read"]
    /\ UNCHANGED <<month, usage, subs, req, lock, gradeVars, regVars, provVars>>

\* increment_usage, lines 163-176: the month's UserUsage row is queried.  A row
\* made on the spot has no counts to add to.
IncrementRead(c) ==
    /\ inflight[c].pc = "read"
    /\ IF <<inflight[c].user, month>> \in DOMAIN usage
       THEN /\ inflight' = [inflight EXCEPT ![c].pc = "write",
                            ![c].read = usage[<<inflight[c].user, month>>].competitions_entered]
            /\ UNCHANGED req
       ELSE /\ inflight' = [inflight EXCEPT ![c].pc = "raised"]
            /\ req' = [route |-> "start_competition", user |-> inflight[c].user,
                       status |-> "error", check |-> inflight[c].check]
    /\ UNCHANGED <<ledgerVars, lock, gradeVars, regVars, provVars>>

\* mutant: UPDATE ... SET competitions_entered = competitions_entered + 1
IncrementWriteAtomic(c) ==
    /\ inflight[c].pc = "write"
    /\ usage' = [usage EXCEPT ![<<inflight[c].user, month>>].competitions_entered = @ + 1]
    /\ inflight' = [inflight EXCEPT ![c].pc = "done"]
    /\ req' = [route |-> "start_competition", user |-> inflight[c].user, status |-> "ok",
               check |-> inflight[c].check]
    /\ UNCHANGED <<month, subs, comps, lock, gradeVars, regVars, provVars>>

\* increment_usage, lines 180-183: usage.competitions_entered += 1 on the loaded
\* object, then commit: the column is set to the value read plus one
IncrementWrite(c) ==
    /\ inflight[c].pc = "write"
    /\ usage' = [usage EXCEPT ![<<inflight[c].user, month>>].competitions_entered =
                                  inflight[c].read + 1]
    /\ inflight' = [inflight EXCEPT ![c].pc = "done"]
    /\ req' = [route |-> "start_competition", user |-> inflight[c].user, status |-> "ok",
               check |-> inflight[c].check]
    /\ UNCHANGED <<month, subs, comps, lock, gradeVars, regVars, provVars>>

InitCalls ==
    /\ lock = Free
    /\ inflight = [c \in Callers |-> IdleCall]

(***************************************************************************)
(* Specifications                                                          *)
(***************************************************************************)
Init == InitSessions /\ InitRegistry /\ InitProv /\ InitLedger /\ InitCalls

NextGrade ==
    \/ \E s \in CreatedSessionIds : CreateSession(s)
    \/ \E s \in SessionIds, d \in Difficulties, sqlRuns \in BOOLEAN :
          \E verdict \in (IF sqlRuns THEN {"true", "false", "raise"} ELSE {"unasked"}) :
          \E explainOk \in (IF sqlRuns /\ verdict # "raise" THEN {TRUE} ELSE BOOLEAN) :
             CheckCorrect("u1", s, d, sqlRuns, verdict, explainOk)
    \/ \E s \in SessionIds, ok \in BOOLEAN : ExecuteSql("u1", s, ok)

SpecGrade == Init /\ [][NextGrade]_vars

NextRegistry ==
    \/ \E key \in RegKeys : Acquire(key)
    \/ \E key \in RegKeys : \E failed \in SUBSET DOMAIN dbfile[key[1]] :
          DeleteDuckdb(key, failed)
    \/ \E h \in 1..MaxConns : ConnBreaks(h)

SpecRegistry == Init /\ [][NextRegistry]_vars

NextProv ==
    \/ \E s \in CreatedSessionIds, g1 \in BOOLEAN :
          \E a1 \in (IF g1 THEN BOOLEAN ELSE {FALSE}) :
          \E made1 \in (IF g1 THEN SUBSET TableNames ELSE {{}}) :
          \E g2 \in (IF g1 /\ ~a1 THEN BOOLEAN ELSE {FALSE}) :
          \E a2 \in (IF g2 THEN BOOLEAN ELSE {FALSE}) :
          \E made2 \in (IF g2 THEN SUBSET TableNames ELSE {{}}) :
          \E p \in (IF a1 \/ a2 THEN BOOLEAN ELSE {FALSE}) :
             GenerateSchema("u1", s, {}, g1, a1, made1, g2, a2, made2, p)
    \/ \E s \in CreatedSessionIds, g1 \in BOOLEAN :
          \E e1 \in (IF g1 THEN BOOLEAN ELSE {FALSE}) :
          \E rows1 \in (IF g1 THEN RowsAfter(dbfile["u1"]) ELSE {dbfile["u1"]}) :
          \E g2 \in (IF g1 /\ ~e1 THEN BOOLEAN ELSE {FALSE}) :
          \E e2 \in (IF g2 THEN BOOLEAN ELSE {FALSE}) :
          \E rows2 \in (IF g2 THEN RowsAfter(rows1) ELSE {rows1}) :
          \E detailShown \in (IF (e1 \/ e2) /\ PopulationRejected(rows2)
                              THEN BOOLEAN ELSE {FALSE}) :
             PopulateTables("u1", s, g1, e1, rows1, g2, e2, rows2, detailShown)

SpecProv == Init /\ [][NextProv]_vars

FailPoints == {"none", "plan", "usage"}

\* the features with a monthly count
QuotaFeatures == {"generate_schema", "competition"}

\* the user whose requests and subscription changes a run follows, the plans it
\* takes, and a second user who only enters competitions
Subscriber == "u1"
OtherUser == "u2"
BoughtPlans == {"pro", "legacy"}

NextQuota ==
    \/ \E f \in QuotaFeatures, failAt \in FailPoints :
          FeatureCheck(Subscriber, f, failAt)
    \/ \E failAt \in FailPoints : StartCompetition(Subscriber, failAt)
    \/ StartCompetition(OtherUser, "none")
    \/ \E genOk \in BOOLEAN : GenerateQuestion(Subscriber, genOk)
    \/ \E plan \in BoughtPlans : PlanChange(Subscriber, plan)
    \/ SubscriptionEnds(Subscriber)
    \/ MonthRollover

SpecQuota == Init /\ [][NextQuota]_vars

\* the requests of one user that provision schemas, generate questions and enter
\* competitions, over two calendar months
NextRoutes ==
    \/ \E s \in CreatedSessionIds, g1 \in BOOLEAN, a1 \in BOOLEAN :
          \E g2 \in (IF g1 /\ ~a1 THEN BOOLEAN ELSE {FALSE}) :
          \E a2 \in (IF g2 THEN BOOLEAN ELSE {FALSE}) :
          \E p \in (IF a1 \/ a2 THEN BOOLEAN ELSE {FALSE}) :
             GenerateSchema(Subscriber, s, {}, g1, a1, (IF g1 THEN TableNames ELSE {}),
                            g2, a2, (IF g2 THEN TableNames ELSE {}), p)
    \/ \E f \in QuotaFeatures : FeatureCheck(Subscriber, f, "none")
    \/ \E failAt \in FailPoints : StartCompetition(Subscriber, failAt)
    \/ \E genOk \in BOOLEAN : GenerateQuestion(Subscriber, genOk)
    \/ MonthRollover

SpecRoutes == Init /\ [][NextRoutes]_vars

\* one user's sandboxes from provisioning to teardown and logout
NextLifecycle ==
    \/ \E s \in CreatedSessionIds, kept \in SUBSET DOMAIN dbfile[Subscriber],
          g1 \in BOOLEAN, a1 \in BOOLEAN :
          \E made1 \in (IF g1 THEN SUBSET TableNames ELSE {{}}) :
          \E g2 \in (IF g1 /\ ~a1 THEN BOOLEAN ELSE {FALSE}) :
          \E a2 \in (IF g2 THEN BOOLEAN ELSE {FALSE}) :
          \E made2 \in (IF g2 THEN {{}, TableNames} ELSE {{}}) :
          \E p \in (IF a1 \/ a2 THEN BOOLEAN ELSE {FALSE}) :
             GenerateSchema(Subscriber, s, kept, g1, a1, made1, g2, a2, made2, p)
    \/ \E s \in SessionIds, failed \in SUBSET DOMAIN dbfile[Subscriber] :
          DeleteDuckdb(<<Subscriber, s>>, failed)
    \/ Logout(Subscriber)

SpecLifecycle == Init /\ [][NextLifecycle]_vars

\* the plans sold (create_checkout_session) and a plan name PLAN_CONFIGS lacks
SoldPlans == {"pro", "max", "legacy"}

\* one user's certificate requests while the plan and the usage counts change
NextCertificates ==
    \/ \E eligible \in BOOLEAN : GetMasterCertificate(Subscriber, eligible)
    \/ GetUserCertificates(Subscriber)
    \/ StartCompetition(Subscriber, "none")
    \/ \E genOk \in BOOLEAN : GenerateQuestion(Subscriber, genOk)
    \/ \E plan \in SoldPlans : PlanChange(Subscriber, plan)
    \/ SubscriptionEnds(Subscriber)
    \/ MonthRollover

SpecCertificates == Init /\ [][NextCertificates]_vars

\* overlapping calls of get_duckdb_conn, on one key and on two keys of one user
CallKeys == {<<"u1", "s1">>, <<"u1", "s2">>}

NextCallers ==
    \/ \E c \in Callers, key \in CallKeys : EnterAcquire(c, key)
    \/ \E c \in Callers : LockAcquire(c)
    \/ \E c \in Callers : CacheGet(c)
    \/ \E c \in Callers : Probe(c)
    \/ \E c \in Callers, ok \in BOOLEAN : Connect(c, ok)
    \/ \E c \in Callers : CacheInsert(c)
    \/ \E c \in Callers : Finish(c)
    \/ \E h \in 1..MaxConns : ConnBreaks(h)

SpecCallers == Init /\ [][NextCallers]_vars

\* overlapping /competition/start requests of one user within one month under one plan
NextRace ==
    \/ \E c \in Callers : CompetitionCheck(c, Subscriber)
    \/ \E c \in Callers : CompetitionRecord(c)
    \/ \E c \in Callers : IncrementRead(c)
    \/ \E c \in Callers : IncrementWrite(c)
    \/ \E c \in Callers : Finish(c)

SpecRace == Init /\ [][NextRace]_vars

\* grading, execution and teardown requests of either principal, naming either user
NextPrincipals ==
    \/ \E s \in CreatedSessionIds : CreateSession(s)
    \/ \E p \in Users, user_id \in Users, s \in CreatedSessionIds, sqlRuns \in BOOLEAN :
          CheckCorrectBy(p, user_id, s, STR_basic, sqlRuns,
                         IF sqlRuns THEN "true" ELSE "unasked", TRUE)
    \/ \E p \in Users, s \in CreatedSessionIds, ok \in BOOLEAN : ExecuteSqlBy(p, s, ok)
    \/ \E p \in Users, user_id \in Users, s \in CreatedSessionIds :
          DeleteDuckdbBy(p, user_id, s, {})

SpecPrincipals == Init /\ [][NextPrincipals]_vars

\* the tables of a sandbox that four-table schemas were taught in
HeuristicTables == {"t1", "t2", "t3", "t4"}

\* user u's sandbox holds some of the tables, with any row counts
InitHeuristic ==
    /\ InitSessions /\ InitRegistry /\ InitLedger /\ InitCalls
    /\ artifacts = [u \in Users |-> 0]
    /\ prov = NoProv
    /\ \E present \in SUBSET HeuristicTables :
          \E counts \in [present -> 0..MaxRows] :
             dbfile = [u \in Users |-> IF u = Subscriber THEN counts ELSE NoTables]

\* population requests whose generated code runs at the first or at no attempt
NextHeuristic ==
    \E s \in CreatedSessionIds, e1 \in BOOLEAN, rows1 \in RowsAfter(dbfile[Subscriber]) :
        PopulateTables(Subscriber, s, TRUE, e1, rows1, FALSE, FALSE, rows1, FALSE)

SpecHeuristic == InitHeuristic /\ [][NextHeuristic]_vars

(***************************************************************************)
(* Claims about the Query Grading Engine (checked under SpecGrade)         *)
(***************************************************************************)

\* C1: in every reachable state, each session's persisted total_score equals the
\* sum of the points of the entries of its persisted query log (an entry without
\* points counts 0).
C1_ScoreEqualsLogSum ==
    \A s \in DOMAIN sessions :
        sessions[s].total_score = SumPoints(sessions[s].queries)

\* the difficulty d is the word w up to the case of its letters
SameWordIgnoringCase(d, w) ==
    /\ Len(d) = Len(w)
    /\ \A i \in 1..Len(w) : d[i] = w[i] \/ d[i] = UpperOf(w[i])

\* the weight table read with the difficulty string exactly as sent
ExactWeight(d) ==
    IF d = STR_basic THEN 5
    ELSE IF d = STR_intermediate THEN 10
    ELSE IF d = STR_advanced THEN 20
    ELSE 0

\* the weight table read ignoring the case of the difficulty string
CaseInsensitiveWeight(d) ==
    IF SameWordIgnoringCase(d, STR_basic) THEN 5
    ELSE IF SameWordIgnoringCase(d, STR_intermediate) THEN 10
    ELSE IF SameWordIgnoringCase(d, STR_advanced) THEN 20
    ELSE 0

\* C10 (as claimed): the points of a graded attempt are (1 if judged correct else
\* 0) times the weight basic=5, intermediate=10, advanced=20, and 0 for any other
\* difficulty string.
C10_PointsByExactString ==
    gradeRes.status = "ok" =>
        gradeRes.points =
            (IF gradeRes.verdict = "true" THEN 1 ELSE 0) * ExactWeight(gradeRes.difficulty)

\* C10 (amended): the points of a graded attempt are (1 if judged correct else 0)
\* times the weight of the difficulty compared without regard to letter case:
\* 5/10/20 for basic/intermediate/advanced in any capitalisation, 0 for a string
\* that is none of them; an incorrect attempt gets 0 at every difficulty.
C10_PointsByLowercasedString ==
    gradeRes.status = "ok" =>
        /\ gradeRes.is_correct = (gradeRes.verdict = "true")
        /\ gradeRes.points =
             (IF gradeRes.verdict = "true" THEN 1 ELSE 0)
                 * CaseInsensitiveWeight(gradeRes.difficulty)

\* C10 witness: a correct attempt at difficulty "ADVANCED" was graded 20 points
C10_Witness ==
    /\ gradeRes.status = "ok"
    /\ gradeRes.verdict = "true"
    /\ gradeRes.difficulty = STR_ADVANCED
    /\ gradeRes.points = 20

\* the persisted log of session s grew by exactly one entry, `entry`, at its end,
\* and no other session's row changed
AppendedOne(s, entry) ==
    /\ sessions'[s].queries = Append(sessions[s].queries, entry)
    /\ \A x \in DOMAIN sessions \ {s} : sessions'[x] = sessions[x]

\* C12: a grade call naming an existing session changes the session's persisted
\* log only by appending exactly one attempt at its end; a grade call naming a
\* session without a record persists nothing; in both cases a result is returned.
C12_GradeAppendsOneAttempt ==
    [][\A s \in SessionIds, d \in Difficulties, sqlRuns \in BOOLEAN,
          verdict \in {"true", "false", "unasked"} :
          CheckCorrect(Subscriber, s, d, sqlRuns, verdict, TRUE) =>
              /\ gradeRes'.status = "ok"
              /\ DOMAIN sessions' = DOMAIN sessions
              /\ IF s \in DOMAIN sessions
                 THEN \E e \in {sessions'[s].queries[Len(sessions'[s].queries)]} :
                         AppendedOne(s, e)
                 ELSE sessions' = sessions]_vars

\* C13: when the learner's SQL fails to execute, the grade call does not raise: it
\* returns is_correct = false and points = 0, and the session log gains that
\* attempt as an incorrect zero-point entry.
C13_FailedSqlIsRecorded ==
    [][\A s \in SessionIds, d \in Difficulties, explainOk \in BOOLEAN :
          CheckCorrect(Subscriber, s, d, FALSE, "unasked", explainOk) =>
              /\ gradeRes'.status = "ok"
              /\ ~gradeRes'.is_correct
              /\ gradeRes'.points = 0
              /\ s \in DOMAIN sessions => AppendedOne(s, AttemptEntry(FALSE, 0, d))]_vars

(***************************************************************************)
(* Claims about the Connection Registry (checked under SpecRegistry)       *)
(***************************************************************************)

\* C2: an acquire that finds a live cached connection returns that same object;
\* an acquire that finds a dead cached connection closes it, stores a new
\* connection under the same key and returns that different, live connection.
C2_AcquireIdentity ==
    (acq.op = "acquire" /\ acq.prev # 0) =>
        IF acq.prevLive
        THEN /\ acq.conn = acq.prev
             /\ cache[acq.key] = acq.prev
             /\ conns[acq.conn] = "live"
        ELSE /\ acq.conn # acq.prev
             /\ conns[acq.conn] = "live"
             /\ cache[acq.key] = acq.conn
             /\ conns[acq.prev] = "closed"

\* C2 witness: an acquire found a dead cached connection and returned another one
C2_Witness ==
    /\ acq.op = "acquire"
    /\ acq.prev # 0
    /\ ~acq.prevLive
    /\ acq.conn # acq.prev

(***************************************************************************)
(* Claims about provisioning and population (checked under SpecProv)       *)
(***************************************************************************)

\* C3: one schema provisioning makes at most 2 apply attempts and one population
\* at most 2 execution attempts; the capability is invoked at most 2 times; the
\* repair request is issued once, exactly when the first attempt failed and right
\* after it; a failed repaired attempt is the last step of the operation.
C3_RepairBound ==
    prov.op \in {"schema", "populate"} =>
        LET t        == prov.trace
            attempts == StepsOf(t, {"attempt"})
            calls    == StepsOf(t, {"generate", "repair"})
            repairs  == StepsOf(t, {"repair"})
            firstFailed == \E i \in attempts : ~t[i].ok /\ \A j \in attempts : j >= i
        IN /\ Cardinality(attempts) <= 2
           /\ Cardinality(calls) <= 2
           /\ Cardinality(repairs) = (IF firstFailed THEN 1 ELSE 0)
           /\ \A i \in repairs :
                 /\ i > 1
                 /\ t[i - 1].ev = "attempt" /\ ~t[i - 1].ok
                 /\ \A j \in attempts : j >= i - 1
           /\ \A i \in attempts :
                 (~t[i].ok /\ \E j \in repairs : j < i) => i = Len(t)

\* C3 witness: a run whose repaired attempt failed too
C3_Witness ==
    /\ prov.op \in {"schema", "populate"}
    /\ Cardinality(StepsOf(prov.trace, {"attempt"})) = 2
    /\ ~prov.trace[Len(prov.trace)].ok
    /\ prov.trace[Len(prov.trace)].ev = "attempt"

(***************************************************************************)
(* Claims about the Usage Quota Ledger (checked under SpecQuota and        *)
(* SpecRoutes)                                                             *)
(***************************************************************************)

\* the count of `feature` in the UserUsage rows us for key k, 0 without a row
CountOf(us, k, feature) ==
    IF k \notin DOMAIN us THEN 0
    ELSE IF feature = "generate_schema" THEN us[k].schemas_generated
    ELSE us[k].competitions_entered

\* this step raised the current-month count of `feature` of user u by exactly 1 and
\* changed no other count of any user in any month
RaisedByOne(u, feature) ==
    /\ CountOf(usage', <<u, month>>, feature) = CountOf(usage, <<u, month>>, feature) + 1
    /\ \A k \in DOMAIN usage \cup DOMAIN usage', f \in QuotaFeatures :
          (k # <<u, month>> \/ f # feature) => CountOf(usage', k, f) = CountOf(usage, k, f)

\* C4: every call of increment(user, feature) for generate_schema (made by the
\* question generator once the questions are there) or competition (made by the
\* competition start once the record is committed) raises that user's
\* current-month count of that feature by exactly 1 and leaves the other count of
\* the record, and every count of every other user and month, unchanged.
C4_IncrementRaisesByOne ==
    [][\A u \in Users :
          /\ GenerateQuestion(u, TRUE) => RaisedByOne(u, "generate_schema")
          /\ comps'[u] > comps[u] => RaisedByOne(u, "competition")]_vars

\* the limit of plan `plan` for a quota-limited feature
LimitOf(plan, feature) ==
    IF feature = "generate_schema" THEN MaxSchemasPerMonth(plan)
    ELSE MaxCompetitionsPerMonth(plan)

\* the last request returned the result of a quota check that no increment followed
AnsweredCheck ==
    /\ req.route \in {"feature_check", "start_competition"}
    /\ req.status \in {"ok", "denied"}
    /\ ~(req.route = "start_competition" /\ req.status = "ok")
    /\ req.check.feature \in QuotaFeatures

\* C5: a check of a quota-limited feature reports the limit of the user's resolved
\* plan and the user's current-month count, and allowed is true exactly when the
\* count is strictly below the limit; at count = limit it is false.
C5_AllowedIffBelowLimit ==
    AnsweredCheck =>
        LET c     == req.check
            count == CountOf(usage, <<req.user, month>>, c.feature)
            limit == LimitOf(subs[req.user], c.feature)
        IN /\ c.limit = limit
           /\ c.used = count
           /\ c.allowed = (count < limit)

\* C5 witness: after as many competition entries as the free plan allows in the
\* month, a check answered allowed = false
C5_Witness ==
    /\ AnsweredCheck
    /\ req.route = "feature_check"
    /\ req.check.feature = "competition"
    /\ req.check.used = FreeMaxCompetitions
    /\ req.check.limit = FreeMaxCompetitions
    /\ ~req.check.allowed
    /\ comps[req.user] = FreeMaxCompetitions

\* the request of this step made a quota check for (u, feature) that allowed it
AllowedInRequest(u, feature) ==
    /\ req'.route # "none"
    /\ req'.user = u
    /\ req'.check.op = "check"
    /\ req'.check.feature = feature
    /\ req'.check.allowed

\* C6: a request that provisions a schema or creates a competition record made,
\* before it, a quota check for that user and feature that returned allowed =
\* true; a request whose check returned allowed = false performs neither.
C6_ActionAfterAllowedCheck ==
    [][\A u \in Users :
          /\ artifacts'[u] > artifacts[u] => AllowedInRequest(u, "generate_schema")
          /\ comps'[u] > comps[u] => AllowedInRequest(u, "competition")
          /\ (/\ req'.route # "none"
              /\ req'.user = u
              /\ req'.check.op = "check"
              /\ ~req'.check.allowed) =>
                 (artifacts'[u] = artifacts[u] /\ comps'[u] = comps[u])]_vars

\* the sum over all months of the count of `feature` of user u
RECURSIVE CountOver(_, _, _, _)
CountOver(us, u, feature, months) ==
    IF months = {} THEN 0
    ELSE LET m == CHOOSE x \in months : TRUE
         IN CountOf(us, <<u, m>>, feature) + CountOver(us, u, feature, months \ {m})

\* C7: a usage count rises only after the action it counts succeeded: a user's
\* schema-generation counts never exceed the user's successful schema
\* provisionings, and the competition counts never exceed the competition records
\* created for the user.
C7_CountedOnlyAfterSuccess ==
    \A u \in Users :
        /\ CountOver(usage, u, "generate_schema", Periods) <= artifacts[u]
        /\ CountOver(usage, u, "competition", Periods) <= comps[u]

\* C8: a check changes no usage count (a row it creates holds zeros), and a check
\* that directly follows an answered check of the same user and feature returns
\* the same allowed, limit and used.
C8_CheckChangesNoCount ==
    [][req'.route = "feature_check" =>
          /\ \A k \in DOMAIN usage \cup DOMAIN usage', f \in QuotaFeatures :
                CountOf(usage', k, f) = CountOf(usage, k, f)
          /\ comps' = comps
          /\ (/\ req.route = "feature_check"
              /\ req.status = "ok"
              /\ req'.status = "ok"
              /\ req'.user = req.user
              /\ req'.check.feature = req.check.feature) => req'.check = req.check]_vars

\* C8 witness: a check answered for a user who has used the feature this month
C8_Witness ==
    /\ req.route = "feature_check"
    /\ req.status = "ok"
    /\ req.check.feature = "competition"
    /\ req.check.used > 0
    /\ req.check.used = CountOf(usage, <<req.user, month>>, "competition")

\* C9: when the store fails while the plan is resolved, the check yields no
\* allowed = true: the request ends in an error, no competition record is created
\* and no count changes.
C9_FailClosed ==
    [][\A u \in Users :
          (\/ StartCompetition(u, "plan")
           \/ \E f \in QuotaFeatures : FeatureCheck(u, f, "plan")) =>
              /\ req'.status = "error"
              /\ req'.check = NoCheck
              /\ comps' = comps
              /\ usage' = usage
              /\ subs' = subs]_vars

\* C9 witness: a competition start of a user below the limit ended in an error
\* without any check result, and no default subscription was created (the failure
\* was in the plan resolution)
C9_Witness ==
    /\ req.route = "start_competition"
    /\ req.status = "error"
    /\ req.check = NoCheck
    /\ subs[req.user] = "none"
    /\ comps[req.user] < FreeMaxCompetitions

(***************************************************************************)
(* Claims about the population heuristic (checked under SpecHeuristic)     *)
(***************************************************************************)

\* the request ran the population code and then counted the rows
Validated == prov.op = "populate" /\ prov.trace[Len(prov.trace)].ev = "validate"

\* C11: after the population code ran, population is accepted exactly when the
\* sandbox has at least one table and strictly more than half of its tables hold
\* more than 1 row; counts [0,2,2,2] are accepted, [0,0,2,2] and a sandbox without
\* tables are rejected.
C11_AcceptedIffMajorityPopulated ==
    /\ Validated =>
          LET counts   == dbfile[prov.user]
              withData == {t \in DOMAIN counts : counts[t] >= 2}
              without  == DOMAIN counts \ withData
          IN prov.trace[Len(prov.trace)].ok =
                (DOMAIN counts # {} /\ Cardinality(withData) > Cardinality(without))
    /\ ~PopulationRejected([t \in HeuristicTables |-> IF t = "t1" THEN 0 ELSE 2])
    /\ PopulationRejected([t \in HeuristicTables |-> IF t \in {"t1", "t2"} THEN 0 ELSE 2])
    /\ PopulationRejected(NoTables)

\* C11 witness: the code ran and left four tables with 0, 2, 2 and 2 rows, and the
\* population was accepted
C11_Witness ==
    /\ Validated
    /\ prov.trace[Len(prov.trace)].ok
    /\ DOMAIN dbfile[prov.user] = HeuristicTables
    /\ Cardinality({t \in HeuristicTables : dbfile[prov.user][t] = 0}) = 1
    /\ Cardinality({t \in HeuristicTables : dbfile[prov.user][t] = 2}) = 3

(***************************************************************************)
(* Claims about the sandbox lifecycle (checked under SpecLifecycle)        *)
(***************************************************************************)

\* C14: after delete_duckdb for (u, s) the handle of (u, s) is closed and no longer
\* in the registry, and the request did not raise, also when a DROP failed.
C14_TeardownDiscardsHandle ==
    req.route = "delete_duckdb" =>
        /\ req.status = "ok"
        /\ cache[<<req.user, req.session>>] = 0

\* C15: after the logout of user u the sandbox file of u is gone (it holds no
\* table) and the registry holds no live handle for any key (u, s).
C15_LogoutDestroysSandboxes ==
    req.route = "logout" =>
        /\ DOMAIN dbfile[req.user] = {}
        /\ \A s \in SessionIds :
              cache[<<req.user, s>>] = 0 \/ conns[cache[<<req.user, s>>]] # "live"

\* this step is a schema provisioning of user u that applied a schema text and
\* committed the Schema row
ProvisionedBy(u) ==
    /\ req'.route = "generate_schema"
    /\ req'.user = u
    /\ prov'.op = "schema"
    /\ \E i \in 1..Len(prov'.trace) : prov'.trace[i].ev = "attempt" /\ prov'.trace[i].ok
    /\ prov'.trace[Len(prov'.trace)] = Ev("persist", TRUE)

C17_SandboxFullyReplaced ==
    [][\A s \in SessionIds, kept \in SUBSET TableNames, a1 \in BOOLEAN, a2 \in BOOLEAN,
          made1 \in SUBSET TableNames, made2 \in SUBSET TableNames :
          (/\ a1 \/ a2
           /\ GenerateSchema(Subscriber, s, kept, TRUE, a1, made1, ~a1, a2, made2, TRUE)) =>
              /\ kept = {}
              /\ DOMAIN dbfile'[Subscriber] = (IF a1 THEN made1 ELSE made2)]_vars

(***************************************************************************)
(* Claims about failure reporting of provisioning and population           *)
(* (checked under SpecProv)                                                *)
(***************************************************************************)

\* the number of capability invocations (original and repair requests) of a run
CapabilityCalls(trace) == Cardinality(StepsOf(trace, {"generate", "repair"}))

\* every capability call of the run raised
EveryCallRaised(trace) ==
    \A i \in StepsOf(trace, {"generate", "repair"}) : ~trace[i].ok

\* no apply or execution attempt of the run went through
EveryAttemptFailed(trace) ==
    \A i \in StepsOf(trace, {"attempt"}) : ~trace[i].ok

\* the last provisioning or population request
IsRun == prov.op \in {"schema", "populate"}

\* C18 (as claimed): when the capability fails on every call of one provisioning
\* or population, it is invoked exactly 2 times and the operation ends in a
\* failure raised to the caller.
C18_TwoCallsWhenAlwaysFailing ==
    (IsRun /\ EveryCallRaised(prov.trace)) =>
        /\ CapabilityCalls(prov.trace) = 2
        /\ prov.response.status # 200

\* C18 (amended): when the first capability call raises, the capability is
\* invoked exactly once (no repair is requested) and the operation ends in a
\* failure raised to the caller; when the capability answers and its first
\* output fails to apply or execute, it is invoked exactly 2 times, and if no
\* attempt goes through the operation ends in a failure raised to the caller.
C18_OneCallWhenRaisingTwoWhenInapplicable ==
    IsRun =>
        LET t == prov.trace IN
        /\ ~t[1].ok => (CapabilityCalls(t) = 1 /\ prov.response.status # 200)
        /\ (t[1].ok /\ ~t[2].ok) => CapabilityCalls(t) = 2
        /\ (t[1].ok /\ t[2].ok) => CapabilityCalls(t) = 1
        /\ EveryAttemptFailed(t) => prov.response.status # 200

\* C18 witness: a population whose first capability call raised ended in a
\* failure after that one call
C18_Witness ==
    /\ prov.op = "populate"
    /\ prov.trace = <<Ev("generate", FALSE)>>
    /\ prov.response.status # 200

\* C19: a population whose code ran but did not meet the row-count heuristic is
\* reported as something else than a code-execution failure, and the report
\* carries the per-table row counts.
C19_InsufficientIsDistinct ==
    (prov.op = "populate" /\ prov.trace[Len(prov.trace)] = Ev("validate", FALSE)) =>
        /\ prov.response.kind # "code_execution_failed"
        /\ prov.response.text = "counts"

\* C20: when the first capability call of a provisioning or population raises,
\* the caller gets one failure that carries the capability's error text.
C20_GenerationFailureCarriesText ==
    (IsRun /\ prov.trace[1] = Ev("generate", FALSE)) =>
        /\ prov.response.status # 200
        /\ prov.response.text = "capability_error"

(***************************************************************************)
(* Claims about the boolean feature gates (checked under SpecCertificates) *)
(***************************************************************************)

\* C21: the gate of the certificate routes answers allowed = the certificate
\* download flag of the user's resolved plan, and the gate of the
\* master-certificate route answers allowed = the master-certificate flag of the
\* resolved plan, whatever the usage counts are.
C21_BooleanGateEqualsPlanFlag ==
    /\ req.route = "certificates" =>
          req.check.allowed = CanDownloadCertificates(subs[req.user])
    /\ req.route = "master_certificate" =>
          req.check.allowed = CanGetMasterCertificate(subs[req.user])

(***************************************************************************)
(* Claims about the usage counters over months (checked under SpecQuota)   *)
(***************************************************************************)

\* C22: over checks, increments, plan changes and month rollovers no count of any
\* (user, month) row is negative or decreases, no row disappears, a row that
\* appears holds zeros unless the step incremented it from zero, the rows of
\* other months than the current one do not change, and a check that is the
\* first read of its month reports used = 0.
C22_CountersMonotoneAndFresh ==
    [][/\ \A k \in DOMAIN usage :
             /\ k \in DOMAIN usage'
             /\ usage[k].schemas_generated >= 0
             /\ usage[k].competitions_entered >= 0
             /\ usage'[k].schemas_generated >= usage[k].schemas_generated
             /\ usage'[k].competitions_entered >= usage[k].competitions_entered
             /\ k[2] # month => usage'[k] = usage[k]
       /\ \A k \in DOMAIN usage' \ DOMAIN usage :
             /\ k[2] = month
             /\ usage'[k].schemas_generated = 0
             /\ usage'[k].competitions_entered \in
                   {0, IF comps'[k[1]] > comps[k[1]] THEN 1 ELSE 0}
       /\ (/\ req'.route = "feature_check"
           /\ req'.status = "ok"
           /\ req'.check.feature \in QuotaFeatures
           /\ <<req'.user, month>> \notin DOMAIN usage) => req'.check.used = 0]_vars

\* C22 witness: in the second month a check was the first read of the month and
\* reported 0 while the row of the first month keeps its non-zero count
C22_Witness ==
    /\ month = 2
    /\ req.route = "feature_check"
    /\ req.status = "ok"
    /\ req.check.feature = "competition"
    /\ req.check.used = 0
    /\ <<req.user, 1>> \in DOMAIN usage
    /\ usage[<<req.user, 1>>].competitions_entered > 0
    /\ usage[<<req.user, 2>>] = ZeroUsage

\* C23: an increment for generate_schema made when the user has no row for the
\* current month creates the row and completes with schemas_generated = 1 and
\* competitions_entered = 0.
C23_FirstIncrementCreatesCounter ==
    [][\A u \in Users :
          (<<u, month>> \notin DOMAIN usage /\ GenerateQuestion(u, TRUE)) =>
              /\ req'.status = "ok"
              /\ <<u, month>> \in DOMAIN usage'
              /\ usage'[<<u, month>>] =
                    [schemas_generated |-> 1, competitions_entered |-> 0]]_vars

(***************************************************************************)
(* Claims about sandbox isolation (checked under SpecLifecycle)            *)
(***************************************************************************)

\* the request of this step was served through the handle of key k
ServedThrough(k) ==
    IF req'.route = "delete_duckdb"
    THEN k = <<req'.user, req'.session>>
    ELSE /\ req'.route = "generate_schema"
         /\ acq'.op = "acquire"
         /\ acq'.key = k

\* C24: a provisioning or teardown served through the handle of (u, s1) changes no
\* table and no row count visible through the handle of (u, s2), s2 # s1.
C24_SessionSandboxesIsolated ==
    [][\A k1 \in RegKeys, k2 \in RegKeys :
          (k1[1] = k2[1] /\ k1[2] # k2[2] /\ ServedThrough(k1)) =>
              dbfile'[DbFilename(k2)] = dbfile[DbFilename(k2)]]_vars

(***************************************************************************)
(* Claims about overlapping calls of the registry (checked under           *)
(* SpecCallers)                                                            *)
(***************************************************************************)
Inserting(c) == inflight[c].pc = "insert" /\ lock = c
Handed(c) == inflight[c].pc = "serve"

\* C25: under any interleaving of get_duckdb_conn calls, every connection that
\* is not closed is the one stored under a key of the registry, or is in the hands
\* of the lock holder that is about to store it under a key that holds none; no
\* connection is stored under two keys; and a call that was handed a connection
\* which is not closed was handed the one the registry stores under its key.
C25_OneHandlePerKey ==
    /\ \A h \in DOMAIN conns :
          conns[h] # "closed" =>
             \/ \E k \in RegKeys : cache[k] = h
             \/ \E c \in Callers :
                   Inserting(c) /\ inflight[c].conn = h /\ cache[KeyOf(c)] = 0
    /\ \A k1 \in RegKeys, k2 \in RegKeys :
          (k1 # k2 /\ cache[k1] # 0) => cache[k1] # cache[k2]
    /\ \A c \in Callers :
          (Handed(c) /\ conns[inflight[c].conn] # "closed") =>
              cache[KeyOf(c)] = inflight[c].conn

\* two overlapping calls for one key were handed the same live connection, the
\* only one created
C25_Witness ==
    /\ Handed("c1") /\ Handed("c2")
    /\ KeyOf("c1") = KeyOf("c2")
    /\ inflight["c1"].conn = inflight["c2"].conn
    /\ conns[inflight["c1"].conn] = "live"
    /\ NumConns(conns) = 1

InCriticalSection(c) == inflight[c].pc \in {"get", "probe", "connect", "insert"}

Completed(c) == inflight[c].pc = "done"
CompetitionsEntered(u) ==
    IF <<u, month>> \in DOMAIN usage THEN usage[<<u, month>>].competitions_entered ELSE 0

\* C27: when two overlapping increments of one user's counter have both completed
\* and both had read the same count, the counter stands at that count plus one:
\* one of the two updates is lost.
C27_OverlappingIncrementsLoseOne ==
    \A c \in Callers, d \in Callers :
        (/\ c # d
         /\ Completed(c) /\ Completed(d)
         /\ inflight[c].user = inflight[d].user
         /\ inflight[c].read = inflight[d].read)
            => CompetitionsEntered(inflight[c].user) = inflight[c].read + 1

\* both requests are complete, two competitions are recorded, the counter says one
C27_Witness ==
    /\ Completed("c1") /\ Completed("c2")
    /\ inflight["c1"].user = inflight["c2"].user
    /\ inflight["c1"].read = 0 /\ inflight["c2"].read = 0
    /\ comps[inflight["c1"].user] = 2
    /\ CompetitionsEntered(inflight["c1"].user) = 1

\* C28: the competitions a user enters within one month under one plan never
\* outnumber the plan's max_competitions_per_month.
C28_ActionsWithinPlanLimit ==
    \A u \in Users : comps[u] <= MaxCompetitionsPerMonth(subs[u])

(***************************************************************************)
(* Claims about whose sandbox a request reaches (checked under             *)
(* SpecPrincipals)                                                         *)
(***************************************************************************)

\* C29: whenever principal p grades, executes SQL or tears down, the registry key
\* of the sandbox the request is served through names p as its user.
C29_SandboxKeyedByPrincipal ==
    [][\A p \in Users, user_id \in Users, s \in CreatedSessionIds :
          /\ (\E sqlRuns \in BOOLEAN :
                 CheckCorrectBy(p, user_id, s, STR_basic, sqlRuns,
                                IF sqlRuns THEN "true" ELSE "unasked", TRUE))
                => acq'.key[1] = p
          /\ (\E ok \in BOOLEAN : ExecuteSqlBy(p, s, ok)) => acq'.key[1] = p
          /\ DeleteDuckdbBy(p, user_id, s, {}) => req'.user = p]_vars

(***************************************************************************)
(* Claims about the capabilities of grading (checked under SpecGrade)      *)
(***************************************************************************)

\* C30: in an answered grade request, the error-explanation capability was invoked
\* only if the learner's SQL failed to execute, the attempt carries no result
\* preview only if the SQL failed to execute, and when the SQL executed the
\* correctness-judgment capability is the only capability that was invoked.
C30_ExplanationOnlyOnSqlFailure ==
    gradeRes.status = "ok" =>
        /\ "explanation_gen_agent" \in gradeRes.invoked => ~gradeRes.executed
        /\ gradeRes.table_head = "" => ~gradeRes.executed
        /\ gradeRes.executed => gradeRes.invoked = {"check_correct_agent"}

====
